---- MODULE Spec2Model ----
(***************************************************************************)
(* Model of the message buffering / debounce engine of src/src/app.py.     *)
(*                                                                         *)
(* Threads of the program:                                                 *)
(*   - the main thread, which runs poll_messages: fetch_new_messages, then *)
(*     buffer_message for every fetched message, then time.sleep;          *)
(*   - one thread per threading.Timer started by buffer_message; when its  *)
(*     delay elapses without cancel() it runs process_buffered_messages.   *)
(* The program takes no lock, so the threads interleave between the        *)
(* statements of buffer_message, process_buffered_messages and             *)
(* append_chat_history.  Every action below is one such statement; the     *)
(* return of an external call (generation, prompt, send), which touches no *)
(* data of the program, is one action with the statement that follows it.  *)
(*                                                                         *)
(* Specifications:                                                         *)
(*   Spec       the program as main() runs it, polling one chat;           *)
(*   SpecChats  the same threads with fetch_new_messages called for        *)
(*              several chat ids;                                          *)
(*   SpecFifo   append_chat_history alone, called sequentially.            *)
(***************************************************************************)
EXTENDS Naturals, Sequences, FiniteSets, TLC

(* ------------------------------ bounds -------------------------------- *)

\* Timers created in one run (every accepted ingest creates one).
MaxTimers == 3

\* Messages returned by one fetch.
MaxBatch == 2

\* Timers created in a run of the specification that polls several chats.
MaxChatTimers == 2

\* Calls of append_chat_history per key in the specification of sequential
\* appends.
MaxAppends == 5

\* History capacity.  The source sets MAX_MESSAGE_HISTORY = 20
\* (src/src/app.py:15); the model scales it down so that MaxTimers flushes
\* fill the history and reach eviction.
MAX_MESSAGE_HISTORY == 3

(* ----------------------------- constants ------------------------------ *)

\* Conversation keys.  main() polls the single chat id of the environment.
ChatIds == {"c1", "c2"}

\* The chat main() polls: get_ms_teams_chat_id(), app.py:172.
specific_chat_id == "c1"

\* Messages the external fetch can return: a stable id and a text content.
Messages == { [id |-> "m1", content |-> "a"], [id |-> "m2", content |-> "b"] }

\* Texts the external generation call can return.
Replies == {"r"}

\* message_id of a turn appended without one (Optional[str] = None).
None == "None"

\* "timer": None in a fresh buffer; timers are numbered from 1.
NoTimer == 0

VARIABLES
    chat_history,     \* chat id -> sequence of turns
    message_buffers,  \* dict: chat id -> [timer, messages]
    timers,           \* every Timer created, in creation order
    poll,             \* the main thread
    tags,             \* history variable: who put each buffered message
    burst,            \* history variable: the ingests of a key so far
    appended          \* history variable: every turn appended, per key

vars == <<chat_history, message_buffers, timers, poll, tags, burst, appended>>

(* --------------------------- pure functions --------------------------- *)

\* " ".join(messages), app.py:102.
RECURSIVE Join(_)
Join(messages) ==
    IF messages = <<>> THEN ""
    ELSE IF Len(messages) = 1 THEN messages[1]
    ELSE messages[1] \o " " \o Join(Tail(messages))

\* any(entry["message_id"] == message_id for entry in chat_history[chat_id]),
\* app.py:128.
ContainsId(history, message_id) ==
    \E n \in 1..Len(history) : history[n].message_id = message_id

\* A wrong eviction: at capacity the newest stored turn is dropped.
EvictNewest(history) ==
    IF Len(history) >= MAX_MESSAGE_HISTORY
    THEN SubSeq(history, 1, Len(history) - 1)
    ELSE history

\* First statement of append_chat_history, app.py:47-48.
Evict(history) ==
    IF Len(history) >= MAX_MESSAGE_HISTORY THEN Tail(history) ELSE history

\* Second statement of append_chat_history, app.py:50-54.
Push(history, user_type, content, message_id) ==
    Append(history, [message_id |-> message_id,
                     user_type  |-> user_type,
                     content    |-> content])

\* threading.Timer.cancel(): sets the finished event, which only a timer
\* still waiting for its delay looks at.
CancelTimer(t) ==
    IF t.pc = "armed" THEN [t EXCEPT !.pc = "cancelled"] ELSE t

(* ------------------------------ helpers ------------------------------- *)

TimerIds == 1..Len(timers)

\* pc values of a timer thread inside process_buffered_messages, after the
\* test of line 101 succeeded and before the thread ends.
FlushPcs == {"u_chk", "u_app", "gen", "m_app", "deliver"}

FlushInProgress(k) ==
    \E i \in TimerIds : timers[i].chat = k /\ timers[i].pc \in FlushPcs

\* pc values of the main thread inside buffer_message.
IngestPcs == {"create", "dedup", "append", "cancel", "arm"}

\* The main thread leaves buffer_message: next message of the fetched
\* list, or the end of fetch_new_messages and the next round of the loop
\* of poll_messages.
NextMessage(p) ==
    [p EXCEPT !.inbox = Tail(p.inbox),
              !.inflight = FALSE,
              !.pc = IF Len(p.inbox) > 1 THEN "create" ELSE "fetch"]

\* An exception nobody catches ends the main thread (poll_messages and
\* main have no try); the timer threads are not daemons and keep running.
PollDies(p, err) ==
    [p EXCEPT !.pc = "dead", !.err = err, !.inflight = FALSE]

(* ------------------------------- Init --------------------------------- *)

Init ==
    /\ chat_history = [k \in ChatIds |-> <<>>]
    /\ message_buffers = <<>>
    /\ timers = <<>>
    /\ poll = [pc |-> "fetch", chat |-> specific_chat_id, inbox |-> <<>>,
               err |-> "", inflight |-> FALSE]
    /\ tags = [k \in ChatIds |-> <<>>]
    /\ burst = [k \in ChatIds |->
                   [ok |-> TRUE, contents |-> <<>>, spaced |-> TRUE]]
    /\ appended = [k \in ChatIds |-> <<>>]

(* ------------------- main thread: poll_messages ----------------------- *)

\* poll_messages, app.py:166-168 and 149-151: time.sleep returns (after
\* the first round), get_recent_messages returns the list batch and the
\* loop of line 151 starts on its first message, or ends at once.
\* Every message that gets as far as line 136 creates a Timer, so the
\* fetch is bounded by the timers left.
FetchReturns(batch) ==
    /\ poll.pc = "fetch"
    /\ Len(timers) + Len(batch) <= MaxTimers
    /\ poll' = [poll EXCEPT !.inbox = batch,
                            !.pc = IF batch = <<>> THEN "fetch" ELSE "create"]
    /\ UNCHANGED <<chat_history, message_buffers, timers, tags, burst, appended>>

\* get_recent_messages raises (raise_for_status, teams_service.py:101, or
\* the token request): the exception leaves fetch_new_messages,
\* poll_messages and main.
FetchRaises ==
    /\ poll.pc = "fetch"
    /\ poll' = PollDies(poll, "HTTPError")
    /\ UNCHANGED <<chat_history, message_buffers, timers, tags, burst, appended>>

\* fetch_new_messages(teams_service, chat_id), app.py:141-156, called for
\* any chat id: get_recent_messages returns batch and the loop of line 150
\* passes its messages to buffer_message with that chat_id.
fetch_new_messages(chat_id, batch) ==
    /\ poll.pc = "fetch"
    /\ Len(timers) + Len(batch) <= MaxChatTimers
    /\ poll' = [poll EXCEPT !.chat = chat_id,
                            !.inbox = batch,
                            !.pc = IF batch = <<>> THEN "fetch" ELSE "create"]
    /\ UNCHANGED <<chat_history, message_buffers, timers, tags, burst, appended>>

\* The timers of key k, and the one created last.
TimersOf(k) == {i \in TimerIds : timers[i].chat = k}

LastTimerOf(k) == CHOOSE i \in TimersOf(k) : \A j \in TimersOf(k) : j <= i

\* The content of the message with id message_id.
ContentOf(message_id) ==
    (CHOOSE m \in Messages : m.id = message_id).content

\* History variable burst: the ingest of message m on key k arrives.  The
\* key stays "one burst" (ok) while every ingest is of a message whose id
\* is not in the history and arrives before the timer of the previous
\* ingest has fired.  Its ingests stay "spaced" while every ingest is of a
\* message not ingested before, whose id is not in the history, and
\* arrives after the timer of the previous ingest has fired.
Arrive(k, m) ==
    LET fresh == ~ContainsId(chat_history[k], m.id)
        one   == /\ burst[k].ok
                 /\ fresh
                 /\ (TimersOf(k) = {} \/ timers[LastTimerOf(k)].pc = "armed")
        apart == /\ burst[k].spaced
                 /\ fresh
                 /\ \A i \in TimersOf(k) :
                        timers[i].message_id # m.id /\ timers[i].pc # "armed"
    IN  [burst EXCEPT ![k] =
            [ok       |-> one,
             contents |-> IF one THEN Append(burst[k].contents, m.content)
                                 ELSE <<>>,
             spaced   |-> apart]]

\* buffer_message, app.py:124-125.
Create ==
    /\ poll.pc = "create"
    /\ LET k == poll.chat
           m == Head(poll.inbox)
       IN  /\ IF k \in DOMAIN message_buffers
              THEN UNCHANGED <<message_buffers, tags>>
              ELSE /\ message_buffers' = message_buffers @@
                         (k :> [timer |-> NoTimer, messages |-> <<>>])
                   /\ tags' = [tags EXCEPT ![k] = <<>>]
           /\ burst' = Arrive(k, m)
           /\ poll' = [poll EXCEPT !.pc = "dedup",
                                   !.inflight = FlushInProgress(k)]
    /\ UNCHANGED <<chat_history, timers, appended>>

\* A wrong check: buffer_message accepts every message.
DedupAcceptsAll ==
    /\ poll.pc = "dedup"
    /\ poll' = [poll EXCEPT !.pc = "append"]
    /\ UNCHANGED <<chat_history, message_buffers, timers, tags, burst, appended>>

\* buffer_message, app.py:127-129.  The scan of the history is one action.
Dedup ==
    /\ poll.pc = "dedup"
    /\ poll' = IF ContainsId(chat_history[poll.chat], Head(poll.inbox).id)
               THEN NextMessage(poll)
               ELSE [poll EXCEPT !.pc = "append"]
    /\ UNCHANGED <<chat_history, message_buffers, timers, tags, burst, appended>>

\* buffer_message, app.py:131.  message_buffers[chat_id] raises KeyError
\* when a flush deleted the entry since line 124.
AppendMessage ==
    /\ poll.pc = "append"
    /\ LET k == poll.chat
       IN  IF k \in DOMAIN message_buffers
           THEN /\ message_buffers' =
                      [message_buffers EXCEPT ![k].messages =
                           Append(@, Head(poll.inbox).content)]
                /\ tags' = [tags EXCEPT ![k] = Append(@, Len(timers) + 1)]
                /\ poll' = [poll EXCEPT !.pc = "cancel"]
           ELSE /\ poll' = PollDies(poll, "KeyError")
                /\ UNCHANGED <<message_buffers, tags>>
    /\ UNCHANGED <<chat_history, timers, burst, appended>>

\* buffer_message, app.py:133-134.
CancelOld ==
    /\ poll.pc = "cancel"
    /\ LET k == poll.chat
       IN  IF k \in DOMAIN message_buffers
           THEN /\ poll' = [poll EXCEPT !.pc = "arm"]
                /\ LET t == message_buffers[k].timer
                   IN  IF t # NoTimer
                       THEN timers' = [timers EXCEPT ![t] = CancelTimer(@)]
                       ELSE UNCHANGED timers
           ELSE /\ poll' = PollDies(poll, "KeyError")
                /\ UNCHANGED timers
    /\ UNCHANGED <<chat_history, message_buffers, tags, burst, appended>>

\* The Timer object of app.py:136-138, started (line 139).  inflight,
\* batch and reply_at are history fields; reply_at is the position, among
\* the turns appended for the key, of the agent turn of the flush.
NewTimer(k, message_id, inflight) ==
    [chat |-> k, message_id |-> message_id, pc |-> "armed",
     buffered_messages |-> "", response |-> "", err |-> "",
     inflight |-> inflight, batch |-> <<>>, reply_at |-> 0]

\* buffer_message, app.py:136-139.
Arm ==
    /\ poll.pc = "arm"
    /\ LET k == poll.chat
       IN  IF k \in DOMAIN message_buffers
           THEN /\ timers' = Append(timers,
                       NewTimer(k, Head(poll.inbox).id, poll.inflight))
                /\ message_buffers' =
                      [message_buffers EXCEPT ![k].timer = Len(timers) + 1]
                /\ poll' = NextMessage(poll)
           ELSE /\ poll' = PollDies(poll, "KeyError")
                /\ UNCHANGED <<timers, message_buffers>>
    /\ UNCHANGED <<chat_history, tags, burst, appended>>

(* --------------- timer threads: process_buffered_messages ------------- *)

\* The delay of timer i elapses with the finished event not set:
\* Timer.run calls process_buffered_messages, app.py:101-102.  Without an
\* entry for the key the function returns at once ("skipped").  The test
\* of the event, the test of line 101 and the join of line 102 are one
\* action: a deletion of the entry between them ends the thread without a
\* flush (KeyError at line 102), as a deletion before them does.
Fire(i) ==
    /\ timers[i].pc = "armed"
    /\ LET k == timers[i].chat
       IN  IF k \in DOMAIN message_buffers
           THEN timers' = [timers EXCEPT
                    ![i].pc = "u_chk",
                    ![i].buffered_messages = Join(message_buffers[k].messages),
                    ![i].batch = tags[k]]
           ELSE timers' = [timers EXCEPT ![i].pc = "skipped"]
    /\ UNCHANGED <<chat_history, message_buffers, poll, tags, burst, appended>>

\* append_chat_history(chat_id, 'user', ...), app.py:104 -> 47-48.
UserEvict(i) ==
    /\ timers[i].pc = "u_chk"
    /\ chat_history' = [chat_history EXCEPT ![timers[i].chat] = Evict(@)]
    /\ timers' = [timers EXCEPT ![i].pc = "u_app"]
    /\ UNCHANGED <<message_buffers, poll, tags, burst, appended>>

\* append_chat_history(chat_id, 'user', ...), app.py:104 -> 50-54.
UserAppend(i) ==
    /\ timers[i].pc = "u_app"
    /\ chat_history' = [chat_history EXCEPT ![timers[i].chat] =
           Push(@, "user", timers[i].buffered_messages, timers[i].message_id)]
    /\ appended' = [appended EXCEPT ![timers[i].chat] =
           Push(@, "user", timers[i].buffered_messages, timers[i].message_id)]
    /\ timers' = [timers EXCEPT ![i].pc = "gen"]
    /\ UNCHANGED <<message_buffers, poll, tags, burst>>

\* generate_response, app.py:66-90: model.invoke returns the text r, and
\* append_chat_history(chat_id, 'me', r) executes its first statement
\* (47-48).  The external call touches no data of the program, so its
\* return and the statement after it are one action.
Generate(i, r) ==
    /\ timers[i].pc = "gen"
    /\ chat_history' = [chat_history EXCEPT ![timers[i].chat] = Evict(@)]
    /\ timers' = [timers EXCEPT ![i].pc = "m_app", ![i].response = r]
    /\ UNCHANGED <<message_buffers, poll, tags, burst, appended>>

\* generate_response, app.py:85: model.invoke raises; nothing catches it
\* and the timer thread ends.
GenerateRaises(i) ==
    /\ timers[i].pc = "gen"
    /\ timers' = [timers EXCEPT ![i].pc = "raised", ![i].err = "generate"]
    /\ UNCHANGED <<chat_history, message_buffers, poll, tags, burst, appended>>

\* append_chat_history(chat_id, 'me', response_text), app.py:90 -> 50-54.
AgentAppend(i) ==
    /\ timers[i].pc = "m_app"
    /\ chat_history' = [chat_history EXCEPT ![timers[i].chat] =
           Push(@, "me", timers[i].response, None)]
    /\ appended' = [appended EXCEPT ![timers[i].chat] =
           Push(@, "me", timers[i].response, None)]
    /\ timers' = [timers EXCEPT
           ![i].pc = "deliver",
           ![i].reply_at = Len(appended[timers[i].chat]) + 1]
    /\ UNCHANGED <<message_buffers, poll, tags, burst>>

\* A wrong cleanup: the flush ends by emptying the whole buffer map.
DeliverClearsAll(i) ==
    /\ timers[i].pc = "deliver"
    /\ message_buffers' = <<>>
    /\ tags' = [k \in ChatIds |-> <<>>]
    /\ timers' = [timers EXCEPT ![i].pc = "done"]
    /\ UNCHANGED <<chat_history, poll, burst, appended>>

\* app.py:107-112: the operator declines, or agrees and send_message
\* returns; then del message_buffers[chat_id], which raises KeyError when
\* another flush of the key deleted the entry first.  The prompt and the
\* send touch no data of the program, so they are one action with line 112.
Deliver(i) ==
    /\ timers[i].pc = "deliver"
    /\ LET k == timers[i].chat
       IN  IF k \in DOMAIN message_buffers
           THEN /\ message_buffers' =
                      [x \in DOMAIN message_buffers \ {k} |-> message_buffers[x]]
                /\ tags' = [tags EXCEPT ![k] = <<>>]
                /\ timers' = [timers EXCEPT ![i].pc = "done"]
           ELSE /\ timers' = [timers EXCEPT ![i].pc = "raised",
                                            ![i].err = "KeyError"]
                /\ UNCHANGED <<message_buffers, tags>>
    /\ UNCHANGED <<chat_history, poll, burst, appended>>

\* app.py:110: send_message raises (teams_service.py:81); nothing catches
\* it and the timer thread ends before line 112.
DeliverRaises(i) ==
    /\ timers[i].pc = "deliver"
    /\ timers' = [timers EXCEPT ![i].pc = "raised", ![i].err = "deliver"]
    /\ UNCHANGED <<chat_history, message_buffers, poll, tags, burst, appended>>

\* append_chat_history(chat_id, user_type, content, message_id),
\* app.py:37-54, as one call that runs from its first statement to its
\* last with no other append in between.
append_chat_history(chat_id, user_type, content, message_id) ==
    /\ Len(appended[chat_id]) < MaxAppends
    /\ chat_history' = [chat_history EXCEPT ![chat_id] =
           Push(Evict(@), user_type, content, message_id)]
    /\ appended' = [appended EXCEPT ![chat_id] =
           Push(@, user_type, content, message_id)]
    /\ UNCHANGED <<message_buffers, timers, poll, tags, burst>>

(* ------------------------------ claims -------------------------------- *)

\* Timer i has run process_buffered_messages past the test of line 101.
Flushed(i) == timers[i].pc \notin {"armed", "cancelled", "skipped"}

FlushesOf(k) == {i \in TimersOf(k) : Flushed(i)}

\* Nothing of key k is under way: the main thread is not inside
\* buffer_message, no timer of k waits and no flush of k runs.
Quiet(k) ==
    /\ ~(poll.chat = k /\ poll.pc \in IngestPcs)
    /\ \A i \in TimersOf(k) : timers[i].pc # "armed"
    /\ ~FlushInProgress(k)

UserTurns(k) ==
    {n \in 1..Len(chat_history[k]) : chat_history[k][n].user_type = "user"}

\* C1 (debounce-and-merge): while every ingest of a key was of a message
\* not yet in the history and arrived before the timer of the previous
\* ingest had fired, at most one flush runs for the key, exactly one has
\* run once nothing of the key is under way, and every participant turn of
\* the key holds all ingested contents, in arrival order, joined by single
\* spaces.
C1_DebounceMerge ==
    \A k \in ChatIds :
        (burst[k].ok /\ burst[k].contents # <<>>) =>
            /\ Cardinality(FlushesOf(k)) <= 1
            /\ Quiet(k) => Cardinality(FlushesOf(k)) = 1
            /\ \A n \in UserTurns(k) :
                   chat_history[k][n].content = Join(burst[k].contents)

\* The ingest that armed timer i put its content in the batch of flush j.
InBatch(i, j) ==
    \E p \in 1..Len(timers[j].batch) : timers[j].batch[p] = i

\* The content of the ingest that armed timer i is still in the buffer.
Buffered(i) ==
    \E p \in 1..Len(tags[timers[i].chat]) : tags[timers[i].chat][p] = i

\* C2 (no loss, no duplication): the content of an ingest that arrived
\* while a flush of its key was in flight is in the batch of at most one
\* flush, and while it is in none it is still in the key's buffer.
C2_InFlightIngestKept ==
    \A i \in TimerIds :
        timers[i].inflight =>
            LET inBatches == {j \in TimerIds : Flushed(j) /\ InBatch(i, j)}
            IN  /\ Cardinality(inBatches) <= 1
                /\ inBatches = {} => Buffered(i)

\* C3 (generation failure): the step in which the generation call of a
\* flush raises appends no turn and leaves the key without a buffer; and
\* the first ingest accepted after a flush that ended this way leaves a
\* buffer holding only its own content.
C3_GenerationFailureClearsBuffer ==
    [][ /\ \A i \in TimerIds :
              GenerateRaises(i) =>
                  /\ chat_history' = chat_history
                  /\ timers[i].chat \notin DOMAIN message_buffers'
        /\ LET k == poll.chat
           IN  (/\ AppendMessage
                /\ poll'.pc = "cancel"
                /\ TimersOf(k) # {}
                /\ timers[LastTimerOf(k)].err = "generate")
               => message_buffers'[k].messages = <<Head(poll.inbox).content>>
      ]_vars

\* C4 (duplicate ingest is a no-op): every step of buffer_message for a
\* message whose id is in the key's history leaves the buffers, the timers
\* and the history unchanged.
C4_DuplicateIngestNoOp ==
    [][ (/\ poll.pc \in {"create", "dedup"}
         /\ poll' # poll
         /\ ContainsId(chat_history[poll.chat], Head(poll.inbox).id))
        => UNCHANGED <<message_buffers, timers, chat_history>>
      ]_vars

\* C5 (bounded history): no history is longer than the capacity.
C5_HistoryBounded ==
    \A k \in ChatIds : Len(chat_history[k]) <= MAX_MESSAGE_HISTORY

\* C6 (no double flush): a cancelled timer stays cancelled, and a timer
\* that starts a flush is the one armed last for its key.
C6_OnlyLastTimerFlushes ==
    [][ \A i \in TimerIds :
            /\ timers[i].pc = "cancelled" => timers'[i].pc = "cancelled"
            /\ (timers[i].pc = "armed" /\ timers'[i].pc \in FlushPcs)
                   => i = LastTimerOf(timers[i].chat)
      ]_vars

\* C7 (one timer per key): no key has two armed timers.
C7_AtMostOneArmedTimer ==
    \A k \in ChatIds :
        Cardinality({i \in TimersOf(k) : timers[i].pc = "armed"}) <= 1

\* buffer_message is under way for key k: its first statement has executed
\* and its last has not.
IngestInProgress(k) ==
    poll.chat = k /\ poll.pc \in {"dedup", "append", "cancel", "arm"}

\* C8 (per-key mutual exclusion): no ingest of a key is under way while a
\* flush of the key runs, and no two flushes of a key run at once.
C8_MutualExclusion ==
    \A k \in ChatIds :
        /\ ~(IngestInProgress(k) /\ FlushInProgress(k))
        /\ Cardinality({i \in TimersOf(k) : timers[i].pc \in FlushPcs}) <= 1

\* C9 (delivery failure): the step in which the delivery call of a flush
\* raises leaves the key without a buffer; and the first ingest accepted
\* after a flush that ended this way leaves a buffer holding only its own
\* content.
C9_DeliveryFailureClearsBuffer ==
    [][ /\ \A i \in TimerIds :
              DeliverRaises(i) =>
                  timers[i].chat \notin DOMAIN message_buffers'
        /\ LET k == poll.chat
           IN  (/\ AppendMessage
                /\ poll'.pc = "cancel"
                /\ TimersOf(k) # {}
                /\ timers[LastTimerOf(k)].err = "deliver")
               => message_buffers'[k].messages = <<Head(poll.inbox).content>>
      ]_vars

\* C10 (failed fetch): the step in which the fetch raises changes no
\* buffer, timer or history and leaves the main thread at the top of its
\* loop, ready for the next fetch.
C10_FailedFetchNotFatal ==
    [][ FetchRaises =>
            /\ UNCHANGED <<message_buffers, timers, chat_history>>
            /\ poll'.pc = "fetch"
      ]_vars

\* C11 (one flush per spaced ingest): while every ingest of a key was of a
\* new message and arrived after the timer of the previous ingest had
\* fired, every timer of the key that fired ran a flush, and the flush of
\* the k-th timer merged exactly the content of the k-th ingest; whatever
\* time generation and delivery take.
C11_OneFlushPerSpacedIngest ==
    \A k \in ChatIds :
        burst[k].spaced =>
            \A i \in TimersOf(k) :
                /\ timers[i].pc \notin {"cancelled", "skipped"}
                /\ Flushed(i) =>
                       timers[i].buffered_messages =
                           ContentOf(timers[i].message_id)

\* C12 (two adjacent turns per flush): when a flush appends its agent turn,
\* the last two turns of the key's history are the participant turn of
\* this flush (the merged content, under the message id the flush was
\* started with) and, right after it, the agent turn with the generated
\* reply: no other turn of the key stands between or after them.
C12_TwoAdjacentTurns ==
    [][\A i \in TimerIds :
          (timers[i].pc = "m_app" /\ timers'[i].pc = "deliver") =>
              LET h == chat_history'[timers[i].chat]
                  n == Len(h)
              IN  /\ n >= 2
                  /\ h[n] = [message_id |-> None,
                             user_type  |-> "me",
                             content    |-> timers[i].response]
                  /\ h[n - 1] = [message_id |-> timers[i].message_id,
                                 user_type  |-> "user",
                                 content    |-> timers[i].buffered_messages]]_vars

\* C13 (unique message ids): no two turns of one key's history carry the
\* same message id, unless it is the empty id of the agent turns.
C13_UniqueMessageIds ==
    \A k \in ChatIds :
        \A m, n \in 1..Len(chat_history[k]) :
            (m # n /\ chat_history[k][m].message_id # None) =>
                chat_history[k][m].message_id # chat_history[k][n].message_id

\* C14 (a buffer is never empty or unarmed): whenever a buffer exists for a
\* key while no flush of the key runs (and the main thread is not inside
\* buffer_message for the key), the buffer holds at least one pending
\* content and its timer is armed.
C14_BufferPendingAndArmed ==
    \A k \in DOMAIN message_buffers :
        (~FlushInProgress(k) /\ ~IngestInProgress(k)) =>
            /\ message_buffers[k].messages # <<>>
            /\ message_buffers[k].timer # NoTimer
            /\ timers[message_buffers[k].timer].pc = "armed"

\* C15 (every buffer is eventually flushed away): once nothing of a key is
\* left to run (the main thread is outside buffer_message, no timer of the
\* key waits and no flush of the key runs) the key has no buffer.  In such
\* a state only a further ingest could start a flush that deletes the
\* buffer, so when ingests have stopped a buffer found there stays for
\* ever, however fairly timers fire and external calls return.
C15_QuietKeyIsIdle ==
    \A k \in ChatIds :
        Quiet(k) => k \notin DOMAIN message_buffers

\* The last n elements of the sequence s, all of it when it is shorter.
LastN(s, n) ==
    IF Len(s) <= n THEN s ELSE SubSeq(s, Len(s) - n + 1, Len(s))

\* C16 (FIFO eviction): after any number of sequential appends to a key's
\* history, the stored sequence is the last MAX_MESSAGE_HISTORY appended
\* turns, in the order of their appends; so an append at capacity removes
\* the oldest stored turn and nothing else.
C16_FifoEviction ==
    \A k \in ChatIds :
        chat_history[k] = LastN(appended[k], MAX_MESSAGE_HISTORY)

\* Two turns more than the capacity were appended to a key and the first
\* one, unlike any stored turn, is gone.
C16_Witness ==
    \E k \in ChatIds :
        /\ Len(appended[k]) >= MAX_MESSAGE_HISTORY + 2
        /\ Len(chat_history[k]) = MAX_MESSAGE_HISTORY
        /\ \A n \in 1..Len(chat_history[k]) :
               chat_history[k][n] # appended[k][1]

\* Flush i has appended its participant turn.
Recorded(i) == timers[i].pc \in {"gen", "m_app", "deliver", "done", "raised"}

\* C17 (last-id-only dedup): a flush that merges two or more messages
\* records, on its participant turn, the id of the message buffered last;
\* afterwards buffer_message discards an ingest of that id as long as the
\* turn is stored, and accepts an ingest of an earlier id of the batch
\* that is on no stored turn.
C17_LastIdOnlyDedup ==
    [][ /\ \A i \in TimerIds :
              (/\ timers[i].pc = "u_app"
               /\ timers'[i].pc = "gen"
               /\ Len(timers[i].batch) >= 2)
              => timers[i].batch[Len(timers[i].batch)] = i
        /\ \A j \in TimerIds :
              (/\ Recorded(j)
               /\ Len(timers[j].batch) >= 2
               /\ poll.chat = timers[j].chat
               /\ poll.pc = "dedup"
               /\ poll' # poll)
              => LET x == Head(poll.inbox).id
                     h == chat_history[poll.chat]
                 IN  /\ (x = timers[j].message_id /\ ContainsId(h, x))
                            => poll'.pc # "append"
                     /\ (/\ x # timers[j].message_id
                         /\ ~ContainsId(h, x)
                         /\ \E n \in 1..Len(timers[j].batch) :
                                /\ timers[j].batch[n] \in TimerIds
                                /\ timers[timers[j].batch[n]].message_id = x)
                            => poll'.pc = "append"
      ]_vars

\* A participant turn with this id was appended to the history of key k
\* at some time.
EverRecorded(k, message_id) ==
    \E n \in 1..Len(appended[k]) :
        /\ appended[k][n].user_type = "user"
        /\ appended[k][n].message_id = message_id

\* Every ingest of key k so far was flushed on its own, one flush after
\* the other: timer i merged the one message of its own ingest, appended
\* the turns 2i-1 and 2i of the key and ran to its end.
OneByOne(k) ==
    /\ Len(appended[k]) = 2 * Cardinality(TimersOf(k))
    /\ \A i \in TimersOf(k) :
           /\ timers[i].pc = "done"
           /\ timers[i].batch = <<i>>
           /\ 2 * i <= Len(appended[k])
           /\ appended[k][2 * i - 1].message_id = timers[i].message_id
           /\ appended[k][2 * i].user_type = "me"

Stored(k, n) ==
    n > Len(appended[k]) - Len(chat_history[k])

\* C19 (ordering inside a flush): a flush calls the delivery at most once,
\* after it has appended the agent turn with the reply; so in the step in
\* which the delivery raises, the agent turn of the flush is in the key's
\* history, and the step leaves the history as it is.
C19_ReplyInHistoryWhenDeliveryFails ==
    [][\A i \in TimerIds :
          /\ timers[i].pc \in {"done", "raised"} => timers'[i].pc = timers[i].pc
          /\ (timers[i].pc = "deliver" /\ timers'[i].pc = "raised"
                 /\ timers'[i].err = "deliver")
             => /\ timers[i].reply_at > 0
                /\ Stored(timers[i].chat, timers[i].reply_at)
                /\ chat_history' = chat_history
      ]_vars

\* The step is one of an ingest of key k (a statement of buffer_message
\* called with chat_id k) or of a timer or flush of key k.
StepOn(k) ==
    \/ poll.chat = k /\ poll.pc \in IngestPcs /\ poll' # poll
    \/ \E i \in TimersOf(k) : timers'[i] # timers[i]

\* C20 (cross-key independence): every step of an ingest or a flush of one
\* key leaves the buffer (its existence, pending contents and timer), the
\* timers and the history of every other key as they are.
C20_CrossKeyIndependence ==
    [][\A a, b \in ChatIds :
          (a # b /\ StepOn(a)) =>
              /\ chat_history'[b] = chat_history[b]
              /\ (b \in DOMAIN message_buffers') = (b \in DOMAIN message_buffers)
              /\ b \in DOMAIN message_buffers =>
                     message_buffers'[b] = message_buffers[b]
              /\ \A i \in TimersOf(b) : timers'[i] = timers[i]
      ]_vars

\* A flush of one key has run to its end and deleted its buffer while
\* another key has a history and a buffer with pending content.
C20_Witness ==
    \E i \in TimerIds, b \in ChatIds :
        /\ timers[i].pc = "done"
        /\ timers[i].chat # b
        /\ timers[i].chat \notin DOMAIN message_buffers
        /\ b \in DOMAIN message_buffers
        /\ message_buffers[b].messages # <<>>
        /\ chat_history[b] # <<>>

(* --------------------------- specification ---------------------------- *)

\* The lists a fetch can return: at most MaxBatch messages, none twice.
Batches ==
    { b \in UNION { [1..n -> Messages] : n \in 0..MaxBatch } :
          \A p, q \in 1..Len(b) : b[p] = b[q] => p = q }

Next ==
    \/ \E batch \in Batches : FetchReturns(batch)
    \/ FetchRaises
    \/ Create
    \/ Dedup
    \/ AppendMessage
    \/ CancelOld
    \/ Arm
    \/ \E i \in TimerIds : Fire(i)
    \/ \E i \in TimerIds : UserEvict(i)
    \/ \E i \in TimerIds : UserAppend(i)
    \/ \E i \in TimerIds : \E r \in Replies : Generate(i, r)
    \/ \E i \in TimerIds : GenerateRaises(i)
    \/ \E i \in TimerIds : AgentAppend(i)
    \/ \E i \in TimerIds : Deliver(i)
    \/ \E i \in TimerIds : DeliverRaises(i)

Spec == Init /\ [][Next]_vars

\* Sequential appends: append_chat_history called again and again, each
\* call complete before the next, with any turn for any key.
NextFifo ==
    \E k \in ChatIds :
        \/ \E m \in Messages : append_chat_history(k, "user", m.content, m.id)
        \/ \E r \in Replies : append_chat_history(k, "me", r, None)

SpecFifo == Init /\ [][NextFifo]_vars

\* The program polling several chats: as Next, with every fetch made for
\* any of the chat ids.
NextChats ==
    \/ \E k \in ChatIds : \E batch \in Batches : fetch_new_messages(k, batch)
    \/ FetchRaises
    \/ Create
    \/ Dedup
    \/ AppendMessage
    \/ CancelOld
    \/ Arm
    \/ \E i \in TimerIds : Fire(i)
    \/ \E i \in TimerIds : UserEvict(i)
    \/ \E i \in TimerIds : UserAppend(i)
    \/ \E i \in TimerIds : \E r \in Replies : Generate(i, r)
    \/ \E i \in TimerIds : GenerateRaises(i)
    \/ \E i \in TimerIds : AgentAppend(i)
    \/ \E i \in TimerIds : Deliver(i)
    \/ \E i \in TimerIds : DeliverRaises(i)

SpecChats == Init /\ [][NextChats]_vars

====
